---- MODULE Spec2Model ----
(***************************************************************************)
(* Model of the fastapi-jwt-auth service: the sliding-window RateLimiter   *)
(* and the request gate (app/middleware.py), the TokenManager              *)
(* (app/auth.py), the SecurityConfig validation (app/config.py) and the    *)
(* auth routes (app/routes.py).                                            *)
(*                                                                         *)
(* Time is counted in whole seconds.  time.time() and datetime.utcnow()    *)
(* are read from the variable clock.                                       *)
(***************************************************************************)
EXTENDS Integers, Sequences, FiniteSets, TLC

VARIABLES
    clock,          \* the wall clock (seconds)
    clients,        \* RateLimiter.clients: client id -> list of timestamps
    last_cleanup,   \* RateLimiter.last_cleanup
    accepted,       \* history: client id -> timestamps of all accepted calls
    calls,          \* history: number of is_allowed calls made so far
    last,           \* history: the last is_allowed call, with its pre-state
    lock,           \* RateLimiter.lock: TRUE while a task holds it
    pc,             \* task -> its position in is_allowed
    task,           \* task -> its client_id and its current_time
    boot,           \* "start", then "running" or "aborted" (SecurityConfig())
    config,         \* app.config.config: the SecurityConfig object
    users,          \* the rows of the users table
    held,           \* tokens the callers have kept from earlier responses
    req,            \* history: the last request handled by a route or the gate
    resp            \* the response to the last request

rlVars == <<clients, last_cleanup, accepted, calls, last>>
taskVars == <<lock, pc, task>>
authVars == <<boot, config, users, held, req, resp>>
vars == <<clock, clients, last_cleanup, accepted, calls, last, lock, pc, task,
          boot, config, users, held, req, resp>>

(***************************************************************************)
(* Bounds and configuration                                                *)
(***************************************************************************)
\* RATE_LIMIT_REQUESTS and RATE_LIMIT_WINDOW as configured for the model
\* (config.py accepts 1..100 and 1..3600).
max_requests == 2
window_seconds == 2
\* The hard-coded sweep interval of _cleanup_if_needed.
CleanupInterval == 300
\* The clock takes the values e * CleanupInterval + d, e <= Epochs, d <= Span.
Epochs == 2
Span == 2
\* At most MaxCalls calls of is_allowed are recorded in the history.
MaxCalls == 4

ClientIds == {"c1", "c2"}
\* The concurrent requests (one task per inbound request).
Tasks == {"t1", "t2"}
Times == {e * CleanupInterval + d : e \in 0..Epochs, d \in 0..Span}

(***************************************************************************)
(* SecurityConfig (app/config.py)                                          *)
(***************************************************************************)
MinSecretLen == 32
MaxAccessMinutes == 60
MaxRefreshDays == 30
MaxBodySize == 1048576
MaxRateRequests == 100
MaxRateWindow == 3600
DefaultBodySize == 10240

\* Two secrets of 32 characters and one that is too short.
K1 == "0123456789abcdef0123456789abcdef"
K2 == "fedcba9876543210fedcba9876543210"
ShortSecret == "too-short"

\* The values the environment may hold at process start.
Envs ==
    [jwt_secret : {"", K1},
     jwt_refresh_secret : {ShortSecret, K1, K2},
     access_token_expire_minutes : {0, 1, MaxAccessMinutes + 1},
     refresh_token_expire_days : {1, MaxRefreshDays + 1},
     max_request_body_size : {DefaultBodySize, MaxBodySize + 1},
     rate_limit_requests : {0, max_requests},
     rate_limit_window : {window_seconds, MaxRateWindow + 1}]

\* constant_time_compare: hmac.compare_digest(a, b) is TRUE iff a = b.
constant_time_compare(a, b) == a = b

\* lines 28-30: raise only if the constant-time comparison says the secrets
\* differ and == says they are equal.
SecretsRejected(cfg) ==
    /\ ~constant_time_compare(cfg.jwt_secret, cfg.jwt_refresh_secret)
    /\ cfg.jwt_secret = cfg.jwt_refresh_secret

\* _validate: the message of the RuntimeError raised, or "ok".
Validate(cfg) ==
    IF cfg.jwt_secret = "" \/ Len(cfg.jwt_secret) < MinSecretLen
    THEN "JWT_SECRET_KEY must be set and at least 32 characters"
    ELSE IF cfg.jwt_refresh_secret = "" \/ Len(cfg.jwt_refresh_secret) < MinSecretLen
    THEN "JWT_REFRESH_SECRET_KEY must be set and at least 32 characters"
    ELSE IF SecretsRejected(cfg)
    THEN "JWT_SECRET_KEY and JWT_REFRESH_SECRET_KEY must be different"
    ELSE IF cfg.access_token_expire_minutes < 1
            \/ cfg.access_token_expire_minutes > MaxAccessMinutes
    THEN "ACCESS_TOKEN_EXPIRE_MINUTES must be between 1 and 60"
    ELSE IF cfg.refresh_token_expire_days < 1
            \/ cfg.refresh_token_expire_days > MaxRefreshDays
    THEN "REFRESH_TOKEN_EXPIRE_DAYS must be between 1 and 30"
    ELSE IF cfg.max_request_body_size > MaxBodySize
    THEN "MAX_REQUEST_BODY_SIZE must not exceed 1MB"
    ELSE IF cfg.rate_limit_requests < 1 \/ cfg.rate_limit_requests > MaxRateRequests
    THEN "RATE_LIMIT_REQUESTS must be between 1 and 100"
    ELSE IF cfg.rate_limit_window < 1 \/ cfg.rate_limit_window > MaxRateWindow
    THEN "RATE_LIMIT_WINDOW must be between 1 and 3600 seconds"
    ELSE "ok"

\* A configuration that passes _validate, used where the rate limiter alone
\* is modelled.
RunningConfig ==
    [jwt_secret |-> K1, jwt_refresh_secret |-> K2,
     access_token_expire_minutes |-> 1, refresh_token_expire_days |-> 1,
     max_request_body_size |-> DefaultBodySize,
     rate_limit_requests |-> max_requests, rate_limit_window |-> window_seconds]

(***************************************************************************)
(* TokenManager (app/auth.py).  A token is the record of its header, its   *)
(* claims and the key its HS256 signature was made with: a signature       *)
(* verifies under a key iff it was made with that key.  jwt.decode is      *)
(* modelled as PyJWT 2 documents it: the time claims are compared with the *)
(* verifier's clock and the leeway, iat first, then nbf, then exp.  The   *)
(* time claims are whole seconds, as jwt.encode writes them.               *)
(***************************************************************************)
ALGORITHM == "HS256"
ALLOWED_ALGORITHMS == {"HS256"}
CLOCK_SKEW_SECONDS == 10
SecondsPerMinute == 60
SecondsPerDay == 86400

Digit(d) == <<"0", "1", "2", "3", "4", "5", "6", "7", "8", "9">>[d + 1]

\* str(user_id): the decimal digits of a non-negative integer.
RECURSIVE Str(_)
Str(n) == IF n < 10 THEN <<Digit(n)>> ELSE Append(Str(n \div 10), Digit(n % 10))

\* int(payload["sub"]) of a string of decimal digits.
RECURSIVE ParseInt(_)
ParseInt(digits) ==
    IF digits = <<>> THEN 0
    ELSE 10 * ParseInt(SubSeq(digits, 1, Len(digits) - 1))
         + (CHOOSE d \in 0..9 : Digit(d) = digits[Len(digits)])

\* A string that is no JWT.
MalformedToken ==
    [wellformed |-> FALSE, alg |-> "", key |-> "", sub |-> <<>>, email |-> "",
     type |-> "", iat |-> 0, nbf |-> 0, exp |-> 0]

\* jwt.encode(payload, key, algorithm)
Encode(payload, key, alg) ==
    [wellformed |-> TRUE, alg |-> alg, key |-> key, sub |-> payload.sub,
     email |-> payload.email, type |-> payload.type, iat |-> payload.iat,
     nbf |-> payload.nbf, exp |-> payload.exp]

create_access_token(cfg, user_id, email, now) ==
    Encode([sub |-> Str(user_id), email |-> email, type |-> "access", iat |-> now,
            exp |-> now + cfg.access_token_expire_minutes * SecondsPerMinute,
            nbf |-> now],
           cfg.jwt_secret, ALGORITHM)

create_refresh_token(cfg, user_id, email, now) ==
    Encode([sub |-> Str(user_id), email |-> email, type |-> "refresh", iat |-> now,
            exp |-> now + cfg.refresh_token_expire_days * SecondsPerDay,
            nbf |-> now],
           cfg.jwt_refresh_secret, ALGORITHM)

\* An expiry check that still accepts a token exactly leeway seconds after
\* its exp.
ExpiredAfterBoundary(exp, now, leeway) == exp < now - leeway

\* The expiry check of jwt.decode: a token is expired once its exp is not
\* after now - leeway.
Expired(exp, now, leeway) == exp <= now - leeway

\* The iat and nbf checks of jwt.decode.
Immature(t, now, leeway) == t > now + leeway

\* jwt.decode(token, key, algorithms, options, leeway): "ok" or the name of
\* the exception raised.
Decode(token, key, now) ==
    IF ~token.wellformed THEN "DecodeError"
    ELSE IF token.alg \notin ALLOWED_ALGORITHMS THEN "InvalidAlgorithmError"
    ELSE IF token.key # key THEN "InvalidSignatureError"
    ELSE IF Immature(token.iat, now, CLOCK_SKEW_SECONDS) THEN "ImmatureSignatureError"
    ELSE IF Immature(token.nbf, now, CLOCK_SKEW_SECONDS) THEN "ImmatureSignatureError"
    ELSE IF Expired(token.exp, now, CLOCK_SKEW_SECONDS) THEN "ExpiredSignatureError"
    ELSE "ok"

\* A verification that does not look at the type claim.
TypeUnchecked(token, kind) == TRUE

\* The type check after a successful decode (lines 73-74, 101-102).
TypeMatches(token, kind) == token.type = kind

HTTP_401_UNAUTHORIZED == 401
Verified(token) == [ok |-> TRUE, status |-> 200, detail |-> "", payload |-> token]
Unauthorized(detail) ==
    [ok |-> FALSE, status |-> HTTP_401_UNAUTHORIZED, detail |-> detail,
     payload |-> MalformedToken]

\* The try/except of verify_access_token and verify_refresh_token: the
\* payload, or the HTTPException raised.
VerifyWith(token, key, kind, now) ==
    LET d == Decode(token, key, now) IN
    IF d = "ok"
    THEN IF TypeMatches(token, kind) THEN Verified(token)
         ELSE Unauthorized("Authentication failed")
    ELSE IF d = "ExpiredSignatureError" THEN Unauthorized("Token expired")
    ELSE Unauthorized("Invalid token")

verify_access_token(cfg, token, now) == VerifyWith(token, cfg.jwt_secret, "access", now)
verify_refresh_token(cfg, token, now) ==
    VerifyWith(token, cfg.jwt_refresh_secret, "refresh", now)

(***************************************************************************)
(* The users table (app/database.py), the password hasher and the          *)
(* requests and responses of the routes (app/routes.py)                    *)
(***************************************************************************)
Emails == {"a@x.com", "b@x.com"}
Passwords == {"Abcdef1!gh23", "Zyxwvu9?ts87"}
\* bcrypt.gensalt draws the salt at random.
Salts == {"salt1"}
\* At most MaxUsers rows, at most MaxHeld tokens kept by the callers.
MaxUsers == 2
MaxHeld == 1
\* The subject of a token signed with the server's secrets for an identity
\* that is not in the users table.
OrphanId == 9

\* bcrypt.hashpw(password, salt): the hash embeds the salt.
hash_password(password, salt) == [salt |-> salt, digest |-> <<salt, password>>]
\* bcrypt.checkpw(password, hashed): rehash with the embedded salt and compare.
verify_password(password, hashed) == hashed.digest = <<hashed.salt, password>>

\* db.query(User).filter(User.email == email).first() and the query by id:
\* the set of matching rows (empty or one row).
ByEmail(rows, email) == {u \in rows : u.email = email}
ById(rows, id) == {u \in rows : u.id = id}
\* The autoincremented primary key of a new row.
NextId(rows) == Cardinality(rows) + 1

NoReq == [op |-> "none", token |-> MalformedToken, issued |-> FALSE, again |-> FALSE,
          email |-> "", password |-> "", now |-> 0, pre_users |-> {}, wrote |-> FALSE]
NoResp == [status |-> 0, detail |-> "", pair |-> {}, user_id |-> 0, email |-> ""]
NoConfig ==
    [jwt_secret |-> "", jwt_refresh_secret |-> "",
     access_token_expire_minutes |-> 0, refresh_token_expire_days |-> 0,
     max_request_body_size |-> 0, rate_limit_requests |-> 0, rate_limit_window |-> 0]

Failure(status, detail) ==
    [status |-> status, detail |-> detail, pair |-> {}, user_id |-> 0, email |-> ""]
\* TokenResponse(access_token, refresh_token)
TokenResponse(status, cfg, user, now) ==
    [status |-> status, detail |-> "",
     pair |-> {create_access_token(cfg, user.id, user.email, now),
               create_refresh_token(cfg, user.id, user.email, now)},
     user_id |-> user.id, email |-> user.email]

(***************************************************************************)
(* RateLimiter                                                             *)
(***************************************************************************)
\* A pruning that still counts a timestamp exactly window_seconds old.
PruneBoundaryIn(tss, current_time) ==
    SelectSeq(tss, LAMBDA ts : current_time - ts <= window_seconds)

\* line 28: [ts for ts in self.clients[client_id] if current_time - ts < self.window_seconds]
Prune(tss, current_time) ==
    SelectSeq(tss, LAMBDA ts : current_time - ts < window_seconds)

\* A sweep filter whose cutoff is one second too late.
ActiveOffByOne(tss, current_time) ==
    SelectSeq(tss, LAMBDA ts : ts > current_time - window_seconds + 1)

\* lines 40, 43: cutoff = current_time - window_seconds; [ts for ts in timestamps if ts > cutoff]
Active(tss, current_time) ==
    SelectSeq(tss, LAMBDA ts : ts > current_time - window_seconds)

\* A sweep that is never triggered.
CleanupNeverDue(current_time, lc) == FALSE

\* line 39: if current_time - self.last_cleanup > 300
CleanupDue(current_time, lc) == current_time - lc > CleanupInterval

\* A sweep that prunes every entry and deletes none.
SweepKeepsEmptied(cl, current_time) ==
    [c \in DOMAIN cl |-> Active(cl[c], current_time)]

\* lines 41-49: the clients that keep an active timestamp keep exactly their
\* active timestamps, the others are deleted.
Sweep(cl, current_time) ==
    [c \in {d \in DOMAIN cl : Active(cl[d], current_time) # <<>>}
        |-> Active(cl[c], current_time)]

\* _cleanup_if_needed: the client map and last_cleanup after the call.
CleanupIfNeeded(cl, lc, current_time) ==
    IF CleanupDue(current_time, lc)
    THEN [clients |-> Sweep(cl, current_time), last_cleanup |-> current_time]
    ELSE [clients |-> cl, last_cleanup |-> lc]

\* A check that gives a new client an entry without a timestamp, as a
\* lookup in the defaultdict does.
CheckNewUnrecorded(cl, client_id, current_time) ==
    IF client_id \notin DOMAIN cl
    THEN [clients |-> [c \in DOMAIN cl \cup {client_id} |->
                          IF c = client_id THEN <<>> ELSE cl[c]],
          ok |-> TRUE]
    ELSE LET timestamps == Prune(cl[client_id], current_time) IN
         IF Len(timestamps) >= max_requests
         THEN [clients |-> [cl EXCEPT ![client_id] = timestamps], ok |-> FALSE]
         ELSE [clients |-> [cl EXCEPT ![client_id] = Append(timestamps, current_time)],
               ok |-> TRUE]

\* A check that appends the timestamp of a rejected call too.
CheckRecordsRejected(cl, client_id, current_time) ==
    IF client_id \notin DOMAIN cl
    THEN [clients |-> [c \in DOMAIN cl \cup {client_id} |->
                          IF c = client_id THEN <<current_time>> ELSE cl[c]],
          ok |-> TRUE]
    ELSE LET timestamps == Prune(cl[client_id], current_time) IN
         [clients |-> [cl EXCEPT ![client_id] = Append(timestamps, current_time)],
          ok |-> Len(timestamps) < max_requests]

\* lines 24-36 of is_allowed, run on the client map the sweep left: the new
\* client map and the returned value.
CheckAndRecord(cl, client_id, current_time) ==
    IF client_id \notin DOMAIN cl
    THEN [clients |-> [c \in DOMAIN cl \cup {client_id} |->
                          IF c = client_id THEN <<current_time>> ELSE cl[c]],
          ok |-> TRUE]
    ELSE LET timestamps == Prune(cl[client_id], current_time) IN
         IF Len(timestamps) >= max_requests
         THEN [clients |-> [cl EXCEPT ![client_id] = timestamps], ok |-> FALSE]
         ELSE [clients |-> [cl EXCEPT ![client_id] = Append(timestamps, current_time)],
               ok |-> TRUE]

\* is_allowed(client_id) with current_time read from the clock: the body run
\* under self.lock (lines 21-36).
IsAllowed(cl, lc, client_id, current_time) ==
    LET swept == CleanupIfNeeded(cl, lc, current_time)
        res == CheckAndRecord(swept.clients, client_id, current_time)
    IN [clients |-> res.clients, last_cleanup |-> swept.last_cleanup,
        ok |-> res.ok, swept |-> CleanupDue(current_time, lc),
        mid |-> swept.clients]

NoCall == [client |-> "none", now |-> 0, ok |-> FALSE, swept |-> FALSE,
           pre |-> <<>>, mid |-> <<>>, removed |-> {}, pre_accepted |-> <<>>]

NoTask == [client_id |-> "none", current_time |-> 0, ok |-> FALSE]

\* RateLimiter.__init__ (lines 11-16), constructed at time 0.
InitLimiter ==
    /\ clock = 0
    /\ clients = <<>>
    /\ last_cleanup = 0
    /\ accepted = [c \in ClientIds |-> <<>>]
    /\ calls = 0
    /\ last = NoCall
    /\ lock = FALSE
    /\ pc = [t \in Tasks |-> "idle"]
    /\ task = [t \in Tasks |-> NoTask]

\* The routes before any request.
InitRoutes ==
    /\ users = {}
    /\ held = {}
    /\ req = NoReq
    /\ resp = NoResp

\* The rate limiter of a process that started with a valid configuration.
Init ==
    /\ InitLimiter
    /\ InitRoutes
    /\ boot = "running"
    /\ config = RunningConfig

\* Time passes: the clock is non-decreasing.
Tick ==
    /\ \E t \in Times : t > clock /\ clock' = t
    /\ UNCHANGED <<rlVars, taskVars, authVars>>

\* One call of is_allowed(client_id), run to completion.
Allow(client_id) ==
    /\ calls < MaxCalls
    /\ LET r == IsAllowed(clients, last_cleanup, client_id, clock) IN
        /\ clients' = r.clients
        /\ last_cleanup' = r.last_cleanup
        /\ accepted' = IF r.ok
                       THEN [accepted EXCEPT ![client_id] = Append(@, clock)]
                       ELSE accepted
        /\ last' = [client |-> client_id, now |-> clock, ok |-> r.ok,
                    swept |-> r.swept, pre |-> clients, mid |-> r.mid,
                    removed |-> DOMAIN clients \ DOMAIN r.mid,
                    pre_accepted |-> accepted[client_id]]
    /\ calls' = calls + 1
    /\ UNCHANGED <<clock, taskVars, authVars>>

Next ==
    \/ Tick
    \/ \E c \in ClientIds : Allow(c)

Spec == Init /\ [][Next]_vars

(***************************************************************************)
(* The rate limiter with requests that keep arriving: no bound on the      *)
(* number of calls, and no history of the accepted calls or of the        *)
(* pre-state of the last call.  calls is kept modulo 2, and the clock is   *)
(* read at the first and the last instant of every epoch only.  Time      *)
(* passes (WF on TickLive) and requests keep arriving (WF on the calls of  *)
(* is_allowed): the sweep has no timer of its own and runs only inside a   *)
(* call.                                                                   *)
(***************************************************************************)
LiveTimes == {e * CleanupInterval + d * Span : e \in 0..Epochs, d \in 0..1}

TickLive ==
    /\ \E t \in LiveTimes : t > clock /\ clock' = t
    /\ UNCHANGED <<rlVars, taskVars, authVars>>

AllowLive(client_id) ==
    /\ LET r == IsAllowed(clients, last_cleanup, client_id, clock) IN
        /\ clients' = r.clients
        /\ last_cleanup' = r.last_cleanup
        /\ last' = [client |-> client_id, now |-> 0, ok |-> r.ok,
                    swept |-> r.swept, pre |-> <<>>, mid |-> <<>>,
                    removed |-> DOMAIN clients \ DOMAIN r.mid,
                    pre_accepted |-> <<>>]
    /\ calls' = (calls + 1) % 2
    /\ UNCHANGED <<clock, accepted, taskVars, authVars>>

NextLive ==
    \/ TickLive
    \/ \E c \in ClientIds : AllowLive(c)

SpecLive ==
    /\ Init
    /\ [][NextLive]_vars
    /\ WF_vars(TickLive)
    /\ WF_vars(\E c \in ClientIds : AllowLive(c))

(***************************************************************************)
(* The rate limiter under concurrent requests: each task runs is_allowed   *)
(* step by step.  It reads the clock (line 19) before it takes the lock    *)
(* (line 21), then sweeps (line 22), checks and records (lines 24-36) and  *)
(* leaves the with block.                                                  *)
(***************************************************************************)
InCritical(t) == pc[t] \in {"locked", "swept", "checked"}

\* The clock is read at the instants of the first epoch and at the first
\* instant at which a sweep is due.
ConcTimes == (0..Span) \cup {CleanupInterval + 1}

TickConc ==
    /\ \E t \in ConcTimes : t > clock /\ clock' = t
    /\ UNCHANGED <<rlVars, taskVars, authVars>>

\* An entry into the with block that does not wait for the lock.
LockIgnored == TRUE

\* line 21: with self.lock blocks until the lock is free.
LockFree == lock = FALSE

\* line 19: current_time = time.time()
Call(t, client_id) ==
    /\ pc[t] = "idle"
    /\ calls < MaxCalls
    /\ calls' = calls + 1
    /\ task' = [task EXCEPT ![t] = [client_id |-> client_id,
                                    current_time |-> clock, ok |-> FALSE]]
    /\ pc' = [pc EXCEPT ![t] = "called"]
    /\ UNCHANGED <<clock, clients, last_cleanup, accepted, last, lock, authVars>>

\* line 21: with self.lock
Acquire(t) ==
    /\ pc[t] = "called"
    /\ LockFree
    /\ lock' = TRUE
    /\ pc' = [pc EXCEPT ![t] = "locked"]
    /\ UNCHANGED <<clock, rlVars, task, authVars>>

\* line 22: self._cleanup_if_needed(current_time)
CleanupStep(t) ==
    /\ pc[t] = "locked"
    /\ LET r == CleanupIfNeeded(clients, last_cleanup, task[t].current_time) IN
        /\ clients' = r.clients
        /\ last_cleanup' = r.last_cleanup
    /\ pc' = [pc EXCEPT ![t] = "swept"]
    /\ UNCHANGED <<clock, accepted, calls, last, lock, task, authVars>>

\* lines 24-36
CheckStep(t) ==
    /\ pc[t] = "swept"
    /\ LET r == CheckAndRecord(clients, task[t].client_id, task[t].current_time) IN
        /\ clients' = r.clients
        /\ task' = [task EXCEPT ![t].ok = r.ok]
        /\ accepted' = IF r.ok
                       THEN [accepted EXCEPT ![task[t].client_id] =
                                Append(@, task[t].current_time)]
                       ELSE accepted
    /\ pc' = [pc EXCEPT ![t] = "checked"]
    /\ UNCHANGED <<clock, last_cleanup, calls, last, lock, authVars>>

\* the return leaves the with block and releases the lock
Release(t) ==
    /\ pc[t] = "checked"
    /\ lock' = FALSE
    /\ pc' = [pc EXCEPT ![t] = "idle"]
    /\ UNCHANGED <<clock, rlVars, task, authVars>>

NextConc ==
    \/ TickConc
    \/ \E t \in Tasks, c \in ClientIds : Call(t, c)
    \/ \E t \in Tasks : Acquire(t)
    \/ \E t \in Tasks : CleanupStep(t)
    \/ \E t \in Tasks : CheckStep(t)
    \/ \E t \in Tasks : Release(t)

SpecConc == Init /\ [][NextConc]_vars

(***************************************************************************)
(* Process start and the routes (app/config.py, app/routes.py)             *)
(***************************************************************************)
AccessBoundary == SecondsPerMinute + CLOCK_SKEW_SECONDS
RefreshBoundary == SecondsPerDay + CLOCK_SKEW_SECONDS
\* The instants at which requests arrive: process start, the first second an
\* access token issued at start is expired, and the first second a refresh
\* token issued at start is expired.
AuthTimes == {0, AccessBoundary, RefreshBoundary}

\* Tokens no route of this process issued: a string that is no JWT, a token
\* signed with a key the server does not hold, an unsigned token, and tokens
\* signed with the server's secrets for an identity the users table lacks.
ForeignTokens(cfg) ==
    {MalformedToken,
     Encode([sub |-> Str(1), email |-> "a@x.com", type |-> "access", iat |-> 0,
             exp |-> 2 * SecondsPerDay, nbf |-> 0], "attacker-key", ALGORITHM),
     Encode([sub |-> Str(1), email |-> "a@x.com", type |-> "access", iat |-> 0,
             exp |-> 2 * SecondsPerDay, nbf |-> 0], "", "none"),
     create_access_token(cfg, OrphanId, "gone@x.com", 0),
     create_refresh_token(cfg, OrphanId, "gone@x.com", 0)}

\* config = SecurityConfig() at import: the fields are read from the
\* environment, then _validate either returns or raises and ends the process.
Startup(env) ==
    /\ boot = "start"
    /\ config' = env
    /\ boot' = IF Validate(env) = "ok" THEN "running" ELSE "aborted"
    /\ UNCHANGED <<clock, rlVars, taskVars, users, held, req, resp>>

TickAuth ==
    /\ boot = "running"
    /\ \E t \in AuthTimes : t > clock /\ clock' = t
    /\ UNCHANGED <<rlVars, taskVars, authVars>>

\* db.rollback(): the rows of the session that were not committed are
\* dropped, the committed rows stay.
Rollback(before, committed) == committed

\* register (lines 30-61).  fault names the call that raises: "commit" is
\* db.commit(), "after_commit" is db.refresh or the token issuance.
RegisterResult(rows, cfg, email, password, salt, fault, now) ==
    IF ByEmail(rows, email) # {}
    THEN [users |-> rows, wrote |-> FALSE, resp |-> Failure(409, "Registration failed")]
    ELSE LET new_user == [id |-> NextId(rows), email |-> email,
                          hashed_password |-> hash_password(password, salt)]
         IN IF fault = "commit"
            THEN [users |-> Rollback(rows, rows), wrote |-> FALSE,
                  resp |-> Failure(500, "Registration failed")]
            ELSE IF fault = "after_commit"
            THEN [users |-> Rollback(rows, rows \cup {new_user}), wrote |-> TRUE,
                  resp |-> Failure(500, "Registration failed")]
            ELSE [users |-> rows \cup {new_user}, wrote |-> TRUE,
                  resp |-> TokenResponse(201, cfg, new_user, now)]

Register(email, password, salt, fault) ==
    /\ boot = "running"
    /\ ByEmail(users, email) = {} => Cardinality(users) < MaxUsers
    /\ LET r == RegisterResult(users, config, email, password, salt, fault, clock) IN
        /\ users' = r.users
        /\ resp' = r.resp
        /\ req' = [op |-> "register", token |-> MalformedToken, issued |-> FALSE,
                   again |-> FALSE, email |-> email, password |-> password,
                   now |-> clock, pre_users |-> users, wrote |-> r.wrote]
    /\ UNCHANGED <<clock, rlVars, taskVars, boot, config, held>>

\* A login that tells an unknown email from a wrong password.
LoginTellsUnknown(rows, cfg, email, password, now) ==
    LET found == ByEmail(rows, email) IN
    IF found = {} THEN Failure(404, "User not found")
    ELSE IF \A u \in found : ~verify_password(password, u.hashed_password)
    THEN Failure(HTTP_401_UNAUTHORIZED, "Invalid credentials")
    ELSE TokenResponse(200, cfg, CHOOSE u \in found : TRUE, now)

\* login (lines 64-84)
LoginResult(rows, cfg, email, password, now) ==
    LET found == ByEmail(rows, email) IN
    IF found = {} \/ \A u \in found : ~verify_password(password, u.hashed_password)
    THEN Failure(HTTP_401_UNAUTHORIZED, "Invalid credentials")
    ELSE TokenResponse(200, cfg, CHOOSE u \in found : TRUE, now)

Login(email, password) ==
    /\ boot = "running"
    /\ resp' = LoginResult(users, config, email, password, clock)
    /\ req' = [op |-> "login", token |-> MalformedToken, issued |-> FALSE,
               again |-> FALSE, email |-> email, password |-> password,
               now |-> clock, pre_users |-> users, wrote |-> FALSE]
    /\ UNCHANGED <<clock, rlVars, taskVars, boot, config, users, held>>

\* A refresh that accepts a refresh token once only: the token that minted
\* the last pair is refused.
RefreshRotates(rows, cfg, token, now) ==
    LET v == verify_refresh_token(cfg, token, now) IN
    IF ~v.ok THEN Failure(v.status, v.detail)
    ELSE LET found == ById(rows, ParseInt(v.payload.sub)) IN
         IF found = {} \/ (req.op = "refresh" /\ req.token = token /\ resp.status = 200)
         THEN Failure(HTTP_401_UNAUTHORIZED, "Invalid token")
         ELSE TokenResponse(200, cfg, CHOOSE u \in found : TRUE, now)

\* refresh_token (lines 87-109)
RefreshResult(rows, cfg, token, now) ==
    LET v == verify_refresh_token(cfg, token, now) IN
    IF ~v.ok THEN Failure(v.status, v.detail)
    ELSE LET found == ById(rows, ParseInt(v.payload.sub)) IN
         IF found = {} THEN Failure(HTTP_401_UNAUTHORIZED, "Invalid token")
         ELSE TokenResponse(200, cfg, CHOOSE u \in found : TRUE, now)

\* get_current_user (auth.py lines 115-124) and get_current_user_info
MeResult(rows, cfg, token, now) ==
    LET v == verify_access_token(cfg, token, now) IN
    IF ~v.ok THEN Failure(v.status, v.detail)
    ELSE LET found == ById(rows, ParseInt(v.payload.sub)) IN
         IF found = {} THEN Failure(HTTP_401_UNAUTHORIZED, "User not found")
         ELSE LET u == CHOOSE w \in found : TRUE IN
              [status |-> 200, detail |-> "", pair |-> {}, user_id |-> u.id,
               email |-> u.email]

\* The tokens a caller can present: those it kept, those of the last
\* response, and the foreign ones.
Presentable == held \cup resp.pair \cup ForeignTokens(config)

\* The request before this one was a /auth/refresh that minted a pair from
\* this token.
UsedJustBefore(token) == req.op = "refresh" /\ req.token = token /\ resp.status = 200

TokenRequest(op, token, r) ==
    /\ resp' = r
    /\ req' = [op |-> op, token |-> token, issued |-> token \in held \cup resp.pair,
               again |-> UsedJustBefore(token), email |-> "", password |-> "",
               now |-> clock, pre_users |-> users, wrote |-> FALSE]
    /\ UNCHANGED <<clock, rlVars, taskVars, boot, config, users, held>>

Refresh(token) ==
    /\ boot = "running"
    /\ TokenRequest("refresh", token, RefreshResult(users, config, token, clock))

Me(token) ==
    /\ boot = "running"
    /\ TokenRequest("me", token, MeResult(users, config, token, clock))

\* A caller keeps a token of the last response.
Keep(token) ==
    /\ token \in resp.pair
    /\ Cardinality(held \cup {token}) <= MaxHeld
    /\ held' = held \cup {token}
    /\ UNCHANGED <<clock, rlVars, taskVars, boot, config, users, req, resp>>

InitAuth ==
    /\ InitLimiter
    /\ InitRoutes
    /\ boot = "start"
    /\ config = NoConfig

NextAuth ==
    \/ \E env \in Envs : Startup(env)
    \/ TickAuth
    \/ \E e \in Emails, p \in Passwords, s \in Salts,
          f \in {"none", "commit", "after_commit"} : Register(e, p, s, f)
    \/ \E e \in Emails, p \in Passwords : Login(e, p)
    \/ \E t \in Presentable : Refresh(t)
    \/ \E t \in Presentable : Me(t)
    \/ \E t \in resp.pair : Keep(t)

SpecAuth == InitAuth /\ [][NextAuth]_vars

(***************************************************************************)
(* The token codec as a function of the token, the kind and the time:      *)
(* verify_access_token and verify_refresh_token applied, in a process that *)
(* passed _validate, to tokens with time claims around the leeway.         *)
(***************************************************************************)
CodecConfigs == {env \in Envs : Validate(env) = "ok"}
CodecTimes ==
    {0} \cup {AccessBoundary + d : d \in {-1, 0, 1}}
        \cup {RefreshBoundary + d : d \in {-1, 0}}

\* Tokens issued at time 0 by create_access_token and create_refresh_token.
IssuedAtStart(cfg) ==
    {create_access_token(cfg, 1, "a@x.com", 0),
     create_refresh_token(cfg, 1, "a@x.com", 0)}

\* Tokens of either type, signed with either secret of the server or with a
\* foreign key, whose iat and nbf are 0 or lie 10 or 11 seconds after the
\* instant AccessBoundary, and whose exp lies 10 or 9 seconds before it.
Crafted(cfg) ==
    {Encode([sub |-> Str(1), email |-> "a@x.com", type |-> ty, iat |-> i,
             nbf |-> n, exp |-> x], k, ALGORITHM) :
        ty \in {"access", "refresh"},
        k \in {cfg.jwt_secret, cfg.jwt_refresh_secret, "attacker-key"},
        i \in {0, AccessBoundary + CLOCK_SKEW_SECONDS, AccessBoundary + CLOCK_SKEW_SECONDS + 1},
        n \in {0, AccessBoundary + CLOCK_SKEW_SECONDS, AccessBoundary + CLOCK_SKEW_SECONDS + 1},
        x \in {AccessBoundary - CLOCK_SKEW_SECONDS, AccessBoundary - CLOCK_SKEW_SECONDS + 1}}

CodecTokens(cfg) == Crafted(cfg) \cup IssuedAtStart(cfg) \cup {MalformedToken}

TickCodec ==
    /\ \E t \in CodecTimes : t > clock /\ clock' = t
    /\ UNCHANGED <<rlVars, taskVars, authVars>>

VerifyCall(op, token, v) ==
    /\ resp' = [status |-> v.status, detail |-> v.detail, pair |-> {},
                user_id |-> 0, email |-> v.payload.email]
    /\ req' = [op |-> op, token |-> token, issued |-> token \in IssuedAtStart(config),
               again |-> FALSE, email |-> "", password |-> "",
               now |-> clock, pre_users |-> users, wrote |-> FALSE]
    /\ UNCHANGED <<clock, rlVars, taskVars, boot, config, users, held>>

VerifyAccess(token) ==
    VerifyCall("verify_access", token, verify_access_token(config, token, clock))

VerifyRefresh(token) ==
    VerifyCall("verify_refresh", token, verify_refresh_token(config, token, clock))

InitCodec ==
    /\ InitLimiter
    /\ InitRoutes
    /\ boot = "running"
    /\ config \in CodecConfigs

NextCodec ==
    \/ TickCodec
    \/ \E t \in CodecTokens(config) : VerifyAccess(t)
    \/ \E t \in CodecTokens(config) : VerifyRefresh(t)

SpecCodec == InitCodec /\ [][NextCodec]_vars

(***************************************************************************)
(* The request gate (security_middleware, app/middleware.py).  A header    *)
(* that is absent and a header that is empty are both falsy in the code:   *)
(* both are the empty string here.  call_next is the routed handler; the   *)
(* status of its response is chosen by the handler.                        *)
(***************************************************************************)
HealthPath == "/health"
Paths == {HealthPath, "/auth/login"}
Methods == {"GET", "POST"}
MutatingMethods == {"POST", "PUT", "PATCH"}
JsonType == "application/json"
AppOrigin == "https://app.example"
EvilOrigin == "https://evil.example"
\* config.allowed_origins: ALLOWED_ORIGINS split at the commas, [] when unset.
AllowLists == {<<>>, <<AppOrigin, "*">>}
\* The ceiling of the declared body size, and one byte more.
AtCeiling == DefaultBodySize
OverCeiling == DefaultBodySize + 1
\* The statuses a routed handler answers with.
HandlerStatuses == {200, 403}
\* The instants at which requests arrive: process start and the first
\* instant at which a sweep is due.
GateTimes == {0, CleanupInterval + 1}

GateConfigs ==
    {[jwt_secret |-> RunningConfig.jwt_secret,
      jwt_refresh_secret |-> RunningConfig.jwt_refresh_secret,
      access_token_expire_minutes |-> RunningConfig.access_token_expire_minutes,
      refresh_token_expire_days |-> RunningConfig.refresh_token_expire_days,
      max_request_body_size |-> RunningConfig.max_request_body_size,
      rate_limit_requests |-> RunningConfig.rate_limit_requests,
      rate_limit_window |-> RunningConfig.rate_limit_window,
      allowed_origins |-> a] : a \in AllowLists}

\* A request: the Content-Length header holds the decimal digits of the
\* declared size; host is request.client.host, "" when request.client is None.
Request(p, m, n, ct, o, h) ==
    [path |-> p, method |-> m, declared |-> n,
     content_length |-> IF n < 0 THEN <<>> ELSE Str(n),
     content_type |-> ct, origin |-> o, host |-> h]

\* The requests of the client c1: every combination of path, method, a
\* declared size that is absent (-1) or over the ceiling, a content type that
\* is absent or application/json, and an origin that is absent, listed or
\* not listed; then a body declared at the ceiling, content types that only
\* start with application/json, the origin "*", and a request without a
\* client address.
Requests ==
    {Request(p, m, n, ct, o, "c1") :
        p \in Paths, m \in Methods, n \in {-1, OverCeiling}, ct \in {"", JsonType},
        o \in {"", AppOrigin, EvilOrigin}}
    \cup {Request("/auth/login", "POST", AtCeiling, JsonType, "", "c1")}
    \cup {Request("/auth/login", "POST", -1, ct, "", "c1") :
             ct \in {"application/json; charset=utf-8", "application/jsonp"}}
    \cup {Request("/auth/login", "GET", -1, "", "*", "c1")}
    \cup {Request("/auth/login", "POST", -1, JsonType, "", "")}

\* str.startswith
StartsWith(s, prefix) == Len(s) >= Len(prefix) /\ SubSeq(s, 1, Len(prefix)) = prefix
\* origin in config.allowed_origins
InList(x, list) == \E i \in 1..Len(list) : list[i] = x

\* A gate without an exempt path.
ExemptNone(path) == FALSE

\* line 57: request.url.path == "/health"
Exempt(path) == path = HealthPath

\* line 60: request.client.host if request.client else "unknown"
ClientIdOf(request) == IF request.host = "" THEN "unknown" ELSE request.host

\* line 69: content_length and int(content_length) > config.max_request_body_size
TooLarge(cfg, content_length) ==
    content_length # <<>> /\ ParseInt(content_length) > cfg.max_request_body_size

\* line 74: not content_type.startswith("application/json")
WrongType(content_type) == ~StartsWith(content_type, JsonType)

\* lines 77-79: config.allowed_origins and origin and origin not in the list
OriginDenied(cfg, origin) ==
    cfg.allowed_origins # <<>> /\ origin # "" /\ ~InList(origin, cfg.allowed_origins)

\* Checks that test the content type before the declared size.
ChecksTypeFirst(cfg, request) ==
    IF request.method \in MutatingMethods /\ WrongType(request.content_type) THEN 415
    ELSE IF TooLarge(cfg, request.content_length) THEN 413
    ELSE IF OriginDenied(cfg, request.origin) THEN 403
    ELSE 0

\* lines 68-80: the status_code of the HTTPException raised by the first
\* failing check, 0 when every check passes.
Checks(cfg, request) ==
    IF TooLarge(cfg, request.content_length) THEN 413
    ELSE IF request.method \in MutatingMethods /\ WrongType(request.content_type) THEN 415
    ELSE IF OriginDenied(cfg, request.origin) THEN 403
    ELSE 0

\* Response headers that reflect whatever origin the request names.
CorsReflectsAny(cfg, origin) == origin

\* lines 84-87: the value of Access-Control-Allow-Origin, "" when the header
\* is not set.
CorsOrigin(cfg, origin) ==
    IF cfg.allowed_origins # <<>> /\ origin # "" /\ InList(origin, cfg.allowed_origins)
    THEN origin ELSE ""

\* A response made by the gate itself: the Response of line 62 (raised
\* FALSE) or an HTTPException (raised TRUE).
Rejected(status, raised) ==
    [status |-> status, handled |-> FALSE, raised |-> raised, allow_origin |-> ""]
\* The response of the handler, with the headers the gate added.
Forwarded(status, allow_origin) ==
    [status |-> status, handled |-> TRUE, raised |-> FALSE, allow_origin |-> allow_origin]

NoRequest ==
    [path |-> "", method |-> "", declared |-> -1, content_length |-> <<>>,
     content_type |-> "", origin |-> "", host |-> "", now |-> 0, allowed |-> FALSE,
     pre |-> <<>>, pre_cleanup |-> 0]
NoResponse == [status |-> 0, handled |-> FALSE, raised |-> FALSE, allow_origin |-> ""]

\* The request as kept in the history, with the limiter's state before it.
Handled(request, allowed) ==
    [path |-> request.path, method |-> request.method, declared |-> request.declared,
     content_length |-> request.content_length, content_type |-> request.content_type,
     origin |-> request.origin, host |-> request.host, now |-> clock,
     allowed |-> allowed, pre |-> clients, pre_cleanup |-> last_cleanup]

\* security_middleware(request, call_next), run to completion.
Gate(request, handler_status) ==
    /\ IF Exempt(request.path)
       THEN /\ resp' = Forwarded(handler_status, "")
            /\ req' = Handled(request, FALSE)
            /\ UNCHANGED <<clients, last_cleanup>>
       ELSE LET r == IsAllowed(clients, last_cleanup, ClientIdOf(request), clock)
                failed == Checks(config, request)
            IN /\ clients' = r.clients
               /\ last_cleanup' = r.last_cleanup
               /\ req' = Handled(request, r.ok)
               /\ resp' = IF ~r.ok THEN Rejected(429, FALSE)
                           ELSE IF failed # 0 THEN Rejected(failed, TRUE)
                           ELSE Forwarded(handler_status,
                                          CorsOrigin(config, request.origin))
    /\ UNCHANGED <<clock, accepted, calls, last, taskVars, boot, config, users, held>>

TickGate ==
    /\ \E t \in GateTimes : t > clock /\ clock' = t
    /\ UNCHANGED <<rlVars, taskVars, authVars>>

InitGate ==
    /\ InitLimiter
    /\ users = {}
    /\ held = {}
    /\ req = NoRequest
    /\ resp = NoResponse
    /\ boot = "running"
    /\ config \in GateConfigs

NextGate ==
    \/ TickGate
    \/ \E request \in Requests, h \in HandlerStatuses : Gate(request, h)

SpecGate == InitGate /\ [][NextGate]_vars

(***************************************************************************)
(* Claims about the rate limiter, checked under Spec (C7 under SpecConc,   *)
(* C9 under SpecLive)                                                      *)
(***************************************************************************)
\* A timestamp is inside the window of a call made at now.
InsideWindow(ts, now) == now - ts < window_seconds
InsideOf(tss, now) == SelectSeq(tss, LAMBDA ts : InsideWindow(ts, now))
Called == last.client # "none"

\* C1: with a non-decreasing clock, a call of is_allowed(c) at time now
\* returns true iff fewer than max_requests of the previously accepted calls
\* of c have a timestamp ts with now - ts < window_seconds.
C1_AllowIffUnderQuota ==
    Called => (last.ok <=> Len(InsideOf(last.pre_accepted, last.now)) < max_requests)

\* C1 witness: a client that had used its whole quota is accepted again once
\* the window has elapsed.
C1_Witness ==
    /\ Called
    /\ last.ok
    /\ Len(last.pre_accepted) >= max_requests
    /\ \E i \in 1..Len(last.pre_accepted) : last.now - last.pre_accepted[i] = window_seconds

\* C8: a sweep keeps every client that has a timestamp inside the window,
\* with exactly its timestamps inside the window, and removes exactly the
\* clients that have none.
C8_SweepKeepsActive ==
    (Called /\ last.swept) =>
        /\ DOMAIN last.mid = {c \in DOMAIN last.pre : InsideOf(last.pre[c], last.now) # <<>>}
        /\ \A c \in DOMAIN last.mid : last.mid[c] = InsideOf(last.pre[c], last.now)

\* C8 witness: a sweep that removed one client and kept another whose oldest
\* kept timestamp is as old as the window allows.
C8_Witness ==
    /\ Called
    /\ last.swept
    /\ \E c \in DOMAIN last.pre : c \notin DOMAIN last.mid
    /\ \E c \in DOMAIN last.mid :
          last.now - last.mid[c][1] = window_seconds - 1

\* C10: after a rejected call the client's list is exactly its previous
\* timestamps that are inside the window, and when no sweep fired every other
\* client's entry is unchanged.
C10_RejectRecordsNothing ==
    (Called /\ ~last.ok) =>
        /\ last.client \in DOMAIN clients
        /\ clients[last.client] = InsideOf(last.pre[last.client], last.now)
        /\ ~last.swept =>
              /\ DOMAIN clients = DOMAIN last.pre
              /\ \A d \in DOMAIN clients \ {last.client} : clients[d] = last.pre[d]

\* C10 witness: a rejected call of one client while another client has an entry.
C10_Witness ==
    /\ Called
    /\ ~last.ok
    /\ ~last.swept
    /\ DOMAIN clients # {last.client}

\* A client whose timestamps are all outside the window at the current time.
Idle(c) == c \in DOMAIN clients /\ InsideOf(clients[c], clock) = <<>>
LastTime == Epochs * CleanupInterval + Span

C7_MutualExclusion ==
    /\ \A t, u \in Tasks : (InCritical(t) /\ InCritical(u)) => t = u
    /\ lock <=> \E t \in Tasks : InCritical(t)

\* C7 witness: one task holds the lock and is about to sweep while another
\* task, which read the clock earlier, waits for the lock.
C7_Witness ==
    \E t, u \in Tasks :
        /\ pc[t] = "locked"
        /\ pc[u] = "called"
        /\ CleanupDue(task[t].current_time, last_cleanup)
        /\ task[u].current_time < task[t].current_time

(***************************************************************************)
(* Claims about process start and the routes, checked under SpecAuth       *)
(***************************************************************************)
TokenOp == req.op \in {"me", "refresh"}
KindOf(op) == IF op = "me" THEN "access" ELSE "refresh"

\* C2: a token issued by a route and presented in the second of its
\* issuance to the operation of its own kind is accepted, and the identity
\* found from its sub claim is the one it was issued for (sub = str(id));
\* presented to the operation of the other kind it is answered 401: /auth/refresh
\* never accepts an access token and /auth/me never accepts a refresh token.
C2_RoundTripAndKindSeparation ==
    (TokenOp /\ req.issued) =>
        /\ req.token.type # KindOf(req.op) => resp.status = HTTP_401_UNAUTHORIZED
        /\ (req.token.type = KindOf(req.op) /\ req.now = req.token.iat) =>
              /\ resp.status = 200
              /\ Str(resp.user_id) = req.token.sub
              /\ resp.email = req.token.email
              /\ \E u \in users : u.id = resp.user_id /\ u.email = req.token.email
              /\ \A t \in resp.pair :
                    t.sub = req.token.sub /\ t.type \in {"access", "refresh"}

\* C2 witness: an issued access token was presented to /auth/refresh in a
\* process whose two secrets are equal, and was answered 401.
C2_Witness ==
    /\ req.op = "refresh"
    /\ req.issued
    /\ req.token.type = "access"
    /\ config.jwt_secret = config.jwt_refresh_secret
    /\ resp.status = HTTP_401_UNAUTHORIZED

\* C5: constructing SecurityConfig raises whenever the two secrets are equal,
\* so a running process signs access and refresh tokens with distinct secrets.
C5_EqualSecretsAbort ==
    (boot # "start" /\ config.jwt_secret = config.jwt_refresh_secret) => boot = "aborted"

\* C6: a register call that ends in a 500 after the identity was written
\* leaves the users table as it was before the call, and the email free.
C6_RegisterRollsBack ==
    (req.op = "register" /\ resp.status = 500 /\ req.wrote) =>
        /\ users = req.pre_users
        /\ ByEmail(users, req.email) = {}

\* A request that presented a token and whose token verification failed
\* (for /auth/me also: whose subject is unknown).
TokenFailure == TokenOp /\ resp.status # 200

\* C4: every failed token verification is answered with one and the same
\* status and message: two failures in a row never differ in the response.
C4_SingleFailureResponse ==
    [][(TokenFailure /\ TokenFailure') =>
          (resp'.status = resp.status /\ resp'.detail = resp.detail)]_vars

(***************************************************************************)
(* Claims about the token codec, checked under SpecCodec                   *)
(***************************************************************************)
VerifyOp == req.op \in {"verify_access", "verify_refresh"}
VerifyKind == IF req.op = "verify_access" THEN "access" ELSE "refresh"
VerifyKey ==
    IF req.op = "verify_access" THEN config.jwt_secret ELSE config.jwt_refresh_secret
Ttl(kind) ==
    IF kind = "access" THEN config.access_token_expire_minutes * 60
    ELSE config.refresh_token_expire_days * 86400
\* The last call verified a well-formed HS256 token of the right kind that is
\* signed with the secret of that kind.
RightToken ==
    /\ VerifyOp
    /\ req.token.wellformed
    /\ req.token.alg = "HS256"
    /\ req.token.key = VerifyKey
    /\ req.token.type = VerifyKind
Succeeded == resp.status = 200
NotFromFuture == req.token.iat <= req.now + 10 /\ req.token.nbf <= req.now + 10

\* C3 as stated: such a token fails when verified later than exp + 10 or
\* with iat or nbf more than 10 seconds ahead, and succeeds when iat and nbf
\* are at most 10 seconds ahead and exp is at most 10 seconds in the past.
C3_AsStated ==
    RightToken =>
        /\ req.now > req.token.exp + 10 => ~Succeeded
        /\ ~NotFromFuture => ~Succeeded
        /\ (NotFromFuture /\ req.now - req.token.exp <= 10) => Succeeded

\* C3 amended: such a token succeeds iff iat and nbf are at most 10 seconds
\* ahead and exp is less than 10 seconds in the past (now < exp + 10); a
\* token issued at time 0 is valid exactly while now < ttl(kind) + 10.
C3_TimeValidity ==
    RightToken =>
        /\ Succeeded <=> (NotFromFuture /\ req.now < req.token.exp + 10)
        /\ req.issued =>
              /\ req.token.iat = 0 /\ req.token.nbf = 0
              /\ Succeeded <=> req.now < Ttl(VerifyKind) + 10

\* C3 witness: an issued token verified exactly ttl(kind) + 10 seconds after
\* its issuance is answered "Token expired".
C3_Witness ==
    /\ RightToken
    /\ req.issued
    /\ req.now = req.token.exp + 10
    /\ resp.status = 401
    /\ resp.detail = "Token expired"

(***************************************************************************)
(* Claims about interleaved calls of is_allowed, checked under SpecConc    *)
(***************************************************************************)
Ordered(tss) == \A i, j \in 1..Len(tss) : i < j => tss[i] <= tss[j]

\* C11: in every reachable state, after any interleaving of is_allowed
\* calls, each client's entry is a non-decreasing sequence of timestamps.
C11_EntriesOrdered == \A c \in DOMAIN clients : Ordered(clients[c])

\* The accepted calls of c whose recorded timestamp lies in (t - window_seconds, t].
AcceptedIn(c, t) ==
    {i \in 1..Len(accepted[c]) :
        accepted[c][i] > t - window_seconds /\ accepted[c][i] <= t}

\* C20: under any interleaving of is_allowed calls, each of which reads the
\* clock before it takes the lock, for every client and every instant t at
\* most max_requests accepted calls have a recorded timestamp in the window
\* (t - window_seconds, t].
C20_QuotaUnderInterleaving ==
    \A c \in ClientIds : \A t \in ConcTimes :
        Cardinality(AcceptedIn(c, t)) <= max_requests

(***************************************************************************)
(* Claims about the request gate, checked under SpecGate                   *)
(***************************************************************************)
\* The gate has handled a request; it was not on the health path.
GateRequest == req.path # ""
Gated == GateRequest /\ req.path # HealthPath
\* What the request of the history declares.
Oversized == req.declared > config.max_request_body_size
Mutating == req.method \in {"POST", "PUT", "PATCH"}
RefusedType == Mutating /\ ~StartsWith(req.content_type, JsonType)
OriginOffList ==
    /\ config.allowed_origins # <<>>
    /\ req.origin # ""
    /\ ~InList(req.origin, config.allowed_origins)
\* The client's entry before the request, and whether it left a free slot.
Requester == IF req.host = "" THEN "unknown" ELSE req.host
EntryBefore == IF Requester \in DOMAIN req.pre THEN req.pre[Requester] ELSE <<>>
UnderQuota == Len(InsideOf(EntryBefore, req.now)) < max_requests
RejectedWith(status) == resp.status = status /\ ~resp.handled

\* C12: a request not on the health path is checked in the order rate limit,
\* declared body size, content type (mutating methods only), origin
\* allow-list, and answered 429, 413, 415 or 403 by the first check that
\* fails; the handler runs iff all pass.  The limiter records every request
\* it admits, also one that a later check rejects.
C12_GateOrder ==
    Gated =>
        /\ req.allowed <=> UnderQuota
        /\ ~UnderQuota => RejectedWith(429)
        /\ (UnderQuota /\ Oversized) => RejectedWith(413)
        /\ (UnderQuota /\ ~Oversized /\ RefusedType) => RejectedWith(415)
        /\ (UnderQuota /\ ~Oversized /\ ~RefusedType /\ OriginOffList) => RejectedWith(403)
        /\ resp.handled <=>
              (UnderQuota /\ ~Oversized /\ ~RefusedType /\ ~OriginOffList)
        /\ Requester \in DOMAIN clients
        /\ clients[Requester] =
              IF UnderQuota THEN Append(InsideOf(EntryBefore, req.now), req.now)
              ELSE InsideOf(EntryBefore, req.now)

\* C12 witness: a request that fails the size, the content-type and the
\* origin check is answered 413 and has taken the client's last free slot.
C12_Witness ==
    /\ Gated
    /\ Oversized /\ RefusedType /\ OriginOffList
    /\ RejectedWith(413)
    /\ Len(EntryBefore) = max_requests - 1
    /\ Len(clients[Requester]) = max_requests

\* C13: a request to the health path is always forwarded to the handler,
\* is never answered by the gate (429, 413, 415, 403), and leaves the client
\* map and last_cleanup as they were, whatever the client's quota.
C13_HealthBypass ==
    (GateRequest /\ req.path = HealthPath) =>
        /\ resp.handled
        /\ ~resp.raised
        /\ resp.status \in HandlerStatuses
        /\ clients = req.pre
        /\ last_cleanup = req.pre_cleanup

\* C13 witness: a health request of a client without a free slot, with an
\* oversized body, a refused content type and an unlisted origin, is
\* forwarded.
C13_Witness ==
    /\ GateRequest
    /\ req.path = HealthPath
    /\ ~UnderQuota
    /\ Oversized /\ RefusedType /\ OriginOffList
    /\ resp.handled

\* The media type of a Content-Type value: the value up to its first ";".
MediaType(ct) ==
    LET semis == {i \in 1..Len(ct) : SubSeq(ct, i, i) = ";"} IN
    IF semis = {} THEN ct
    ELSE SubSeq(ct, 1, (CHOOSE i \in semis : \A j \in semis : i <= j) - 1)

\* C14: a request with a mutating method reaches the handler only if its
\* content type is application/json (parameters such as a charset aside);
\* with any other content type it is answered 415 once it has passed the
\* rate limit and the size check.
C14_JsonOnly ==
    (Gated /\ Mutating) =>
        /\ resp.handled => MediaType(req.content_type) = JsonType
        /\ (MediaType(req.content_type) # JsonType /\ UnderQuota /\ ~Oversized)
              => RejectedWith(415)

\* C17 as stated: the response carries Access-Control-Allow-Origin only when
\* the request's origin is on the allow-list, the header is that origin and
\* never "*", and a request whose origin is present but not on a configured
\* allow-list is answered 403 without reaching a handler.
C17_AsStated ==
    GateRequest =>
        /\ resp.allow_origin # "" =>
              /\ InList(req.origin, config.allowed_origins)
              /\ resp.allow_origin = req.origin
              /\ resp.allow_origin # "*"
        /\ OriginOffList => RejectedWith(403)

\* C17 amended: the header is set only on a forwarded response whose
\* request origin is on the allow-list, and is that origin; a request not on
\* the health path whose origin is present but not on a configured
\* allow-list never reaches a handler and is answered 403 unless an earlier
\* check has answered 429, 413 or 415; on the health path it is forwarded
\* without the header.
C17_OriginHeaders ==
    GateRequest =>
        /\ resp.allow_origin # "" =>
              /\ resp.handled
              /\ InList(req.origin, config.allowed_origins)
              /\ resp.allow_origin = req.origin
        /\ (OriginOffList /\ req.path # HealthPath) =>
              /\ ~resp.handled
              /\ resp.status \in {429, 413, 415, 403}
              /\ resp.status = 403 <=> (UnderQuota /\ ~Oversized /\ ~RefusedType)
        /\ (OriginOffList /\ req.path = HealthPath) =>
              resp.handled /\ resp.allow_origin = ""
        /\ (resp.handled /\ req.path # HealthPath /\ req.origin # ""
              /\ config.allowed_origins # <<>>) => resp.allow_origin = req.origin

\* C17 witness: with an allow-list of two entries, a forwarded response
\* carries the header with the listed origin of its request.
C17_Witness ==
    /\ Gated
    /\ resp.handled
    /\ Len(config.allowed_origins) > 1
    /\ req.origin = AppOrigin
    /\ resp.allow_origin = AppOrigin

(***************************************************************************)
(* Further claims about the routes, checked under SpecAuth                 *)
(***************************************************************************)
\* The identity of the email of the last request, and whether the password
\* of the request is the one it registered with.
Known == ByEmail(users, req.email) # {}
RightPassword ==
    \E u \in ByEmail(users, req.email) :
        u.hashed_password = hash_password(req.password, u.hashed_password.salt)

\* C15: a login with an unknown email and a login with a known email and a
\* wrong password are answered alike, 401 with the one message "Invalid
\* credentials" and no tokens, and no login changes the users table.
C15_LoginFailuresAlike ==
    req.op = "login" =>
        /\ users = req.pre_users
        /\ (~Known \/ ~RightPassword) =>
              /\ resp.status = HTTP_401_UNAUTHORIZED
              /\ resp.detail = "Invalid credentials"
              /\ resp.pair = {}
              /\ resp.user_id = 0 /\ resp.email = ""
        /\ (Known /\ RightPassword) => resp.status = 200

\* C15 witness: a login with a registered email and a wrong password was
\* answered 401.
C15_Witness ==
    /\ req.op = "login"
    /\ Known
    /\ ~RightPassword
    /\ resp.status = HTTP_401_UNAUTHORIZED

\* C16: there is at most one identity per email; a register call for an
\* email that has an identity is answered 409 and leaves the users table
\* unchanged; the table changes only by a register call that succeeds (201),
\* and then by exactly one new identity; login, refresh and me leave it
\* unchanged.
C16_IdentityLifecycle ==
    /\ \A u, v \in users : u.email = v.email => u = v
    /\ (req.op = "register" /\ ByEmail(req.pre_users, req.email) # {}) =>
          (resp.status = 409 /\ users = req.pre_users)
    /\ users # req.pre_users =>
          /\ req.op = "register"
          /\ resp.status = 201
          /\ req.pre_users \subseteq users
          /\ Cardinality(users) = Cardinality(req.pre_users) + 1
    /\ req.op \in {"login", "refresh", "me"} => users = req.pre_users

\* C19: whether an issued token of the right kind is accepted depends on the
\* token and the time of the request alone: it is accepted iff its exp is
\* less than the leeway in the past, whatever requests came before; a
\* refresh token that has minted a pair is accepted again, and tokens issued
\* later do not invalidate it.
C19_StatelessValidity ==
    (TokenOp /\ req.issued /\ req.token.type = KindOf(req.op)) =>
        (resp.status = 200 <=> req.now < req.token.exp + CLOCK_SKEW_SECONDS)

\* C19 witness: the refresh token that minted the pair of the previous
\* request, at an earlier time than now, is presented again and mints
\* another pair.
C19_Witness ==
    /\ req.op = "refresh"
    /\ req.again
    /\ req.now > req.token.iat
    /\ resp.status = 200
    /\ req.token \notin resp.pair

(***************************************************************************)
(* A further claim about the rate limiter, checked under Spec              *)
(***************************************************************************)
\* The client of the last call had no entry when the call reached line 24:
\* it had none before the call, or the sweep of this call removed it.
NoEntryAtCheck ==
    \/ last.client \notin DOMAIN last.pre
    \/ last.swept /\ InsideOf(last.pre[last.client], last.now) = <<>>

\* C18: a call of a client that has no entry in the client map (never seen,
\* or removed by a sweep, also by the sweep of that same call) is accepted
\* and leaves the client with the entry <<now>>.
C18_NewClientAccepted ==
    (Called /\ NoEntryAtCheck) =>
        /\ last.ok
        /\ last.client \in DOMAIN clients
        /\ clients[last.client] = <<last.now>>

\* C18 witness: a client with a full entry calls when a sweep is due; the
\* sweep of the call removes the entry and the call is accepted.
C18_Witness ==
    /\ Called
    /\ last.swept
    /\ last.client \in DOMAIN last.pre
    /\ Len(last.pre[last.client]) = max_requests
    /\ last.client \notin DOMAIN last.mid
    /\ last.ok
    /\ clients[last.client] = <<last.now>>

(***************************************************************************)
(* A claim about the stored entries, checked under SpecConc: in every      *)
(* state between the steps of interleaved calls                            *)
(***************************************************************************)
\* C21: every client in the client map has between 1 and max_requests
\* timestamps: no entry is stored empty and none holds more than
\* max_requests, whether or not its timestamps have been pruned yet.
C21_EntryLength ==
    \A c \in DOMAIN clients :
        Len(clients[c]) >= 1 /\ Len(clients[c]) <= max_requests

\* C21 witness: while a call of its client is between the sweep and the
\* check, a full entry holds only timestamps that are outside the window
\* and not pruned yet.
C21_Witness ==
    \E t \in Tasks :
        /\ pc[t] = "swept"
        /\ task[t].client_id \in DOMAIN clients
        /\ Len(clients[task[t].client_id]) = max_requests
        /\ InsideOf(clients[task[t].client_id], clock) = <<>>

====
